---- MODULE Spec2Model ----
(***************************************************************************)
(* Local search over two fixtures (tile puzzle, N-queens): the state       *)
(* classes of eightpuzzle.py and eightqueen.py, the fixtures and the three *)
(* hill-climbing policies of hillclimbing.py, and the two annealing entry  *)
(* points of simannealing.py.                                              *)
(*                                                                         *)
(* Python lists are functions over 0..n-1 where the code indexes them      *)
(* (board, queen_cols) and sequences where it only appends and iterates    *)
(* (neighbour lists, score traces).  The move names of eightpuzzle.py      *)
(* (up, down, left, right, written with CJK characters there) are the      *)
(* strings "up", "down", "left", "right".                                  *)
(***************************************************************************)
EXTENDS Integers, Sequences, FiniteSets, TLC

VARIABLES alg, pc, arg, hc, sa, rr, ret, attempts, result, state, neighbors, moves,
          mem

vars ==
    <<alg, pc, arg, hc, sa, rr, ret, attempts, result, state, neighbors, moves, mem>>

(***************************************************************************)
(* Bounds of the model.                                                    *)
(***************************************************************************)
MaxSteps == 2

MaxRestarts == 2

MaxStepsPerTemp == 2

MaxTempExp == 1

MaxMinTemp == 1

MaxMoves == 4

MaxSize == 3

MaxListings == 2

MaxWrites == 1

MaxFresh == 1

(***************************************************************************)
(* Program constants.                                                      *)
(***************************************************************************)
PuzzleSize == 3

DefaultQueenSize == 8

DefaultMaxSteps == 1000

Optimum == 100

None == [kind |-> "None"]

Abs(x) == IF x < 0 THEN -x ELSE x

RECURSIVE SumSeq(_)
SumSeq(s) == IF s = <<>> THEN 0 ELSE Head(s) + SumSeq(Tail(s))

RECURSIVE MaxSeq(_)
MaxSeq(s) ==
    IF Len(s) = 1 THEN s[1]
    ELSE LET m == MaxSeq(Tail(s)) IN IF s[1] >= m THEN s[1] ELSE m

Last(s) == s[Len(s)]

(***************************************************************************)
(* eightpuzzle.py                                                          *)
(***************************************************************************)
Cells == (0 .. PuzzleSize - 1) \X (0 .. PuzzleSize - 1)

\* The first cell holding 0 in row-major order; the constructor raises
\* ValueError when there is none.
find_blank(board) ==
    LET zeros == {c \in Cells : board[c[1]][c[2]] = 0}
    IN  IF zeros = {} THEN "ValueError"
        ELSE CHOOSE c \in zeros :
                \A d \in zeros : c[1] < d[1] \/ (c[1] = d[1] /\ c[2] <= d[2])

EightPuzzleState(board) ==
    [kind |-> "EightPuzzleState", board |-> board, size |-> PuzzleSize,
     blank_pos |-> find_blank(board)]

get_possible_moves(s) ==
    LET x == s.blank_pos[1]
        y == s.blank_pos[2]
    IN  (IF x > 0 THEN <<"up">> ELSE <<>>)
        \o (IF x < 2 THEN <<"down">> ELSE <<>>)
        \o (IF y > 0 THEN <<"left">> ELSE <<>>)
        \o (IF y < 2 THEN <<"right">> ELSE <<>>)

Directions == {"up", "down", "left", "right"}

Delta(direction) ==
    CASE direction = "up" -> <<-1, 0>>
      [] direction = "down" -> <<1, 0>>
      [] direction = "left" -> <<0, -1>>
      [] direction = "right" -> <<0, 1>>

\* move without the write of the tile into the blank's cell.
moveLosesTile(s, direction) ==
    IF direction \notin Directions THEN None
    ELSE LET d == Delta(direction)
             new_x == s.blank_pos[1] + d[1]
             new_y == s.blank_pos[2] + d[2]
         IN  IF 0 <= new_x /\ new_x < s.size /\ 0 <= new_y /\ new_y < s.size
             THEN EightPuzzleState([s.board EXCEPT ![new_x][new_y] = 0])
             ELSE None

\* new_board is a deep copy of the board with two cells written: the blank's
\* cell takes the tile, then the tile's cell takes 0.
move(s, direction) ==
    IF direction \notin Directions THEN None
    ELSE LET d == Delta(direction)
             bx == s.blank_pos[1]
             by == s.blank_pos[2]
             new_x == bx + d[1]
             new_y == by + d[2]
         IN  IF 0 <= new_x /\ new_x < s.size /\ 0 <= new_y /\ new_y < s.size
             THEN LET b1 == [s.board EXCEPT ![bx][by] = s.board[new_x][new_y]]
                      b2 == [b1 EXCEPT ![new_x][new_y] = 0]
                  IN  EightPuzzleState(b2)
             ELSE None

(***************************************************************************)
(* eightqueen.py                                                           *)
(***************************************************************************)
QueenState(size) ==
    [kind |-> "QueenHillClimbing", size |-> size,
     queen_cols |-> [r \in 0 .. size - 1 |-> -1]]

place_queen(s, row, col) ==
    IF ~(0 <= row /\ row < s.size /\ 0 <= col /\ col < s.size) THEN s
    ELSE [s EXCEPT !.queen_cols[row] = col]

(***************************************************************************)
(* hillclimbing.py: the two fixtures                                       *)
(***************************************************************************)
EightPuzzleHillClimbing(board, goal) ==
    [kind |-> "EightPuzzleHillClimbing", board |-> board, size |-> PuzzleSize,
     blank_pos |-> find_blank(board), goal |-> goal]

PuzzleNeighbors(s) ==
    LET ms == get_possible_moves(s)
        moved == [k \in 1 .. Len(ms) |-> move(s, ms[k])]
        kept == SelectSeq(moved, LAMBDA n : n # None)
    IN  [k \in 1 .. Len(kept) |-> EightPuzzleHillClimbing(kept[k].board, s.goal)]

\* distance adds |i - gi| + |j - gj| for every pair of a non-blank cell (i, j)
\* and a goal cell (gi, gj) holding the same value.
PuzzleDistance(s) ==
    LET n == s.size
        cell(k) == <<k \div n, k % n>>
        term(k) ==
            LET c == cell(k \div (n * n))
                g == cell(k % (n * n))
            IN  IF s.board[c[1]][c[2]] # 0
                   /\ s.goal.board[g[1]][g[2]] = s.board[c[1]][c[2]]
                THEN Abs(c[1] - g[1]) + Abs(c[2] - g[2])
                ELSE 0
    IN  SumSeq([k \in 1 .. n * n * n * n |-> term(k - 1)])

PuzzleEvaluate(s) == Optimum - PuzzleDistance(s)

\* QueenNeighbors without the test that the new column differs.
QueenNeighborsAllColumns(s) ==
    LET n == s.size
        all == [k \in 1 .. n * n |-> <<(k - 1) \div n, (k - 1) % n>>]
    IN  [k \in 1 .. Len(all) |->
            [s EXCEPT !.queen_cols[all[k][1]] = all[k][2]]]

\* One state per (row, new_col) with new_col different from the row's column,
\* rows outermost, columns ascending.
QueenNeighbors(s) ==
    LET n == s.size
        all == [k \in 1 .. n * n |-> <<(k - 1) \div n, (k - 1) % n>>]
        kept == SelectSeq(all, LAMBDA p : p[2] # s.queen_cols[p[1]])
    IN  [k \in 1 .. Len(kept) |->
            [s EXCEPT !.queen_cols[kept[k][1]] = kept[k][2]]]

QueenConflicts(s) ==
    Cardinality({p \in (0 .. s.size - 1) \X (0 .. s.size - 1) :
        /\ p[1] < p[2]
        /\ \/ s.queen_cols[p[1]] = s.queen_cols[p[2]]
           \/ Abs(p[1] - p[2]) = Abs(s.queen_cols[p[1]] - s.queen_cols[p[2]])})

QueenEvaluate(s) == Optimum - QueenConflicts(s)

get_neighbors(s) ==
    IF s.kind = "QueenHillClimbing" THEN QueenNeighbors(s) ELSE PuzzleNeighbors(s)

evaluate(s) ==
    IF s.kind = "QueenHillClimbing" THEN QueenEvaluate(s) ELSE PuzzleEvaluate(s)

is_goal(s) == evaluate(s) = Optimum

(***************************************************************************)
(* Inputs.  The puzzle boards are the fixed goal grid, the grids within    *)
(* MaxScramble blank moves of it and one grid no sequence of moves joins   *)
(* to it; generate_random_puzzle can return each of them.                  *)
(***************************************************************************)
Grid(r0, r1, r2) ==
    [i \in 0 .. 2 |-> [j \in 0 .. 2 |-> (<<r0, r1, r2>>)[i + 1][j + 1]]]

FixedGoal == Grid(<<0, 1, 2>>, <<3, 4, 5>>, <<6, 7, 8>>)

OtherGoal == Grid(<<1, 0, 2>>, <<3, 4, 5>>, <<6, 7, 8>>)

Unsolvable == Grid(<<0, 2, 1>>, <<3, 4, 5>>, <<6, 7, 8>>)

MaxScramble == 2

\* The grids one slide of the blank away from a grid.
Slides(b) ==
    {[i \in 0 .. 2 |-> [j \in 0 .. 2 |->
          IF <<i, j>> = c THEN b[d[1]][d[2]]
          ELSE IF <<i, j>> = d THEN b[c[1]][c[2]]
          ELSE b[i][j]]] :
        <<c, d>> \in {x \in Cells \X Cells :
            /\ b[x[1][1]][x[1][2]] = 0
            /\ Abs(x[1][1] - x[2][1]) + Abs(x[1][2] - x[2][2]) = 1}}

RECURSIVE Scrambled(_)
Scrambled(k) ==
    IF k = 0 THEN {FixedGoal}
    ELSE LET prev == Scrambled(k - 1)
         IN  prev \cup UNION {Slides(b) : b \in prev}

PuzzleBoards == Scrambled(MaxScramble) \cup {Unsolvable}

PuzzleGoals == {FixedGoal, OtherGoal}

PuzzleInputs ==
    {EightPuzzleHillClimbing(b, EightPuzzleState(g)) :
        <<b, g>> \in PuzzleBoards \X PuzzleGoals}

Cols(t) == [r \in 0 .. Len(t) - 1 |-> t[r + 1]]

Queens(t) ==
    [kind |-> "QueenHillClimbing", size |-> Len(t), queen_cols |-> Cols(t)]

\* Every placement of a board of the given size, and the constructor's state.
AllQueens(size) ==
    {[QueenState(size) EXCEPT !.queen_cols = c] :
        c \in [0 .. size - 1 -> 0 .. size - 1]} \cup {QueenState(size)}

QueenInputs == AllQueens(1) \cup AllQueens(4)

Reversed == Grid(<<8, 7, 6>>, <<5, 4, 3>>, <<2, 1, 0>>)

OneMove == Grid(<<3, 1, 2>>, <<0, 4, 5>>, <<6, 7, 8>>)

TwoMoves == Grid(<<3, 1, 2>>, <<4, 0, 5>>, <<6, 7, 8>>)

Puzzle(b, g) == EightPuzzleHillClimbing(b, EightPuzzleState(g))

\* The inputs of the entry points whose walk is random: a sample of them.
WalkInputs ==
    {Queens(<<0>>), QueenState(1), Queens(<<0, 0>>), Puzzle(FixedGoal, FixedGoal),
     Puzzle(OneMove, FixedGoal), Puzzle(TwoMoves, FixedGoal),
     Puzzle(Unsolvable, FixedGoal), Puzzle(FixedGoal, OtherGoal),
     Puzzle(TwoMoves, OtherGoal)}

ClimbInputs ==
    WalkInputs
    \cup {Queens(<<1, 3, 0, 2>>), Queens(<<1, 3, 0, 0>>), Queens(<<0, 0, 0, 0>>),
          Queens(<<0, 0, 1, 2>>), QueenState(4)}

\* What generate_random_state of each fixture can return: a sample.
RandomQueens ==
    {q \in {Queens(<<0, 4, 7, 5, 2, 6, 1, 3>>), Queens(<<0, 4, 7, 5, 2, 6, 1, 1>>),
            Queens(<<7, 0, 7, 0, 4, 6, 2, 2>>)} : q.size = DefaultQueenSize}

RandomPuzzles ==
    {Puzzle(FixedGoal, FixedGoal), Puzzle(OneMove, FixedGoal),
     Puzzle(Reversed, FixedGoal)}

generate_random_state(s) ==
    IF s.kind = "EightPuzzleHillClimbing" THEN RandomPuzzles
    ELSE IF s.kind = "QueenHillClimbing" THEN RandomQueens
    ELSE {s}

\* Temperatures are whole numbers of one unit.  cooling_rate is 1/2, which
\* floating point multiplies exactly; with initial_temp a power of two and
\* min_temp at least one unit every temperature of a run is a whole number.
InitialTemps == {0} \cup {2 ^ e : e \in 0 .. MaxTempExp}

MinTemps == 1 .. MaxMinTemp

CoolingRate == [num |-> 1, den |-> 2]

(***************************************************************************)
(* The call frames.  hc is the frame of steepest_ascent or first_choice,   *)
(* sa the frame of anneal, rr the frame of random_restart or               *)
(* random_restart_anneal; ret is what the last inner call returned and     *)
(* attempts the returns of all inner calls of a restart loop, in order.    *)
(***************************************************************************)
Algorithms ==
    {"steepest_ascent", "first_choice", "random_restart", "anneal",
     "random_restart_anneal"}

HillFrame(initial_state, max_steps) ==
    [current |-> initial_state, scores |-> <<evaluate(initial_state)>>,
     step |-> 0, max_steps |-> max_steps]

AnnealFrame(initial_state, initial_temp, min_temp, steps_per_temp) ==
    [current |-> initial_state, current_score |-> evaluate(initial_state),
     best_state |-> initial_state, best_score |-> evaluate(initial_state),
     temp |-> initial_temp, scores |-> <<evaluate(initial_state)>>,
     step |-> 0, min_temp |-> min_temp, steps_per_temp |-> steps_per_temp]

RestartFrame(initial_state, limit) ==
    [initial_state |-> initial_state, best_state |-> initial_state,
     best_score |-> evaluate(initial_state),
     all_scores |-> <<evaluate(initial_state)>>, count |-> 0, limit |-> limit]

RestartAnnealFrame(initial_state, limit) ==
    [initial_state |-> initial_state, best_state |-> initial_state,
     best_score |-> evaluate(initial_state),
     all_scores |-> <<>>, count |-> 0, limit |-> limit]

HillArgs ==
    [initial_state : QueenInputs \cup PuzzleInputs, max_steps : 0 .. MaxSteps]

WalkArgs == [initial_state : ClimbInputs, max_steps : 0 .. MaxSteps]

RestartArgs ==
    [initial_state : ClimbInputs, max_restarts : 0 .. MaxRestarts]

AnnealArgs ==
    [initial_state : WalkInputs, initial_temp : InitialTemps,
     min_temp : MinTemps, steps_per_temp : 0 .. MaxStepsPerTemp]

RestartAnnealArgs ==
    [initial_state : WalkInputs, num_restarts : 0 .. MaxRestarts,
     initial_temp : {0, 2}, min_temp : {1}, steps_per_temp : {0, 1}]

ArgsOf(a) ==
    CASE a = "steepest_ascent" -> HillArgs
      [] a = "first_choice" -> WalkArgs
      [] a = "random_restart" -> RestartArgs
      [] a = "anneal" -> AnnealArgs
      [] a = "random_restart_anneal" -> RestartAnnealArgs

Init ==
    /\ alg \in Algorithms
    /\ arg \in ArgsOf(alg)
    /\ pc = "start"
    /\ hc = None
    /\ sa = None
    /\ rr = None
    /\ ret = <<>>
    /\ attempts = <<>>
    /\ result = <<>>
    /\ state = None
    /\ neighbors = <<>>
    /\ moves = 0
    /\ mem = None

(***************************************************************************)
(* HillClimbing.steepest_ascent                                            *)
(***************************************************************************)
\* max over (n, n.evaluate()) by score: the first neighbour, in the order of
\* the list, whose score no neighbour exceeds.
BestIndex(ns) ==
    CHOOSE k \in 1 .. Len(ns) :
        /\ \A j \in 1 .. Len(ns) : evaluate(ns[j]) <= evaluate(ns[k])
        /\ \A j \in 1 .. k - 1 : evaluate(ns[j]) < evaluate(ns[k])

\* SteepestBody stopping only on a best neighbour below the current score.
SteepestBodyTakesTies(f) ==
    LET ns == get_neighbors(f.current)
    IN  IF ns = <<>> THEN [frame |-> f, again |-> FALSE]
        ELSE LET best_neighbor == ns[BestIndex(ns)]
                 best_score == evaluate(best_neighbor)
             IN  IF best_score < evaluate(f.current)
                 THEN [frame |-> f, again |-> FALSE]
                 ELSE [frame |-> [f EXCEPT !.current = best_neighbor,
                                           !.scores = Append(@, best_score),
                                           !.step = @ + 1],
                       again |-> ~is_goal(best_neighbor)]

\* One pass of the loop body: the frame after it and whether the loop goes on.
SteepestBody(f) ==
    LET ns == get_neighbors(f.current)
    IN  IF ns = <<>> THEN [frame |-> f, again |-> FALSE]
        ELSE LET best_neighbor == ns[BestIndex(ns)]
                 best_score == evaluate(best_neighbor)
             IN  IF best_score <= evaluate(f.current)
                 THEN [frame |-> f, again |-> FALSE]
                 ELSE [frame |-> [f EXCEPT !.current = best_neighbor,
                                           !.scores = Append(@, best_score),
                                           !.step = @ + 1],
                       again |-> ~is_goal(best_neighbor)]

StartSteepest ==
    /\ pc = "start"
    /\ alg = "steepest_ascent"
    /\ hc' = HillFrame(arg.initial_state, arg.max_steps)
    /\ pc' = "steepest_loop"
    /\ UNCHANGED <<mem, alg, arg, sa, rr, ret, attempts, result, state, neighbors, moves>>

SteepestIter ==
    /\ pc = "steepest_loop"
    /\ hc.step < hc.max_steps
    /\ LET r == SteepestBody(hc)
       IN  /\ hc' = r.frame
           /\ pc' = IF r.again THEN "steepest_loop" ELSE "steepest_return"
    /\ UNCHANGED <<mem, alg, arg, sa, rr, ret, attempts, result, state, neighbors, moves>>

SteepestExhausted ==
    /\ pc = "steepest_loop"
    /\ hc.step >= hc.max_steps
    /\ pc' = "steepest_return"
    /\ UNCHANGED <<mem, alg, arg, hc, sa, rr, ret, attempts, result, state, neighbors, moves>>

SteepestReturn ==
    /\ pc = "steepest_return"
    /\ ret' = <<hc.current, hc.scores>>
    /\ IF alg = "steepest_ascent"
       THEN result' = <<hc.current, hc.scores>> /\ pc' = "done"
       ELSE result' = result /\ pc' = "restart_after"
    /\ UNCHANGED <<mem, alg, arg, hc, sa, rr, attempts, state, neighbors, moves>>

(***************************************************************************)
(* HillClimbing.first_choice                                               *)
(***************************************************************************)
\* Acceptable with the scan also taking a neighbour one point below the
\* current score.
AcceptableOrWorse(f) ==
    LET ns == get_neighbors(f.current)
    IN  {k \in 1 .. Len(ns) : evaluate(ns[k]) >= evaluate(f.current) - 1}

\* Acceptable with the scan taking strict improvements only.
AcceptableStrict(f) ==
    LET ns == get_neighbors(f.current)
    IN  {k \in 1 .. Len(ns) : evaluate(ns[k]) > evaluate(f.current)}

\* The neighbours a shuffle can put first among those the scan accepts: each of
\* those whose score is at least the current one.
Acceptable(f) ==
    LET ns == get_neighbors(f.current)
    IN  {k \in 1 .. Len(ns) : evaluate(ns[k]) >= evaluate(f.current)}

StartFirstChoice ==
    /\ pc = "start"
    /\ alg = "first_choice"
    /\ hc' = HillFrame(arg.initial_state, arg.max_steps)
    /\ pc' = "first_loop"
    /\ UNCHANGED <<mem, alg, arg, sa, rr, ret, attempts, result, state, neighbors, moves>>

FirstChoiceMove ==
    /\ pc = "first_loop"
    /\ hc.step < hc.max_steps
    /\ \E k \in Acceptable(hc) :
          LET neighbor == get_neighbors(hc.current)[k]
          IN  /\ hc' = [hc EXCEPT !.current = neighbor,
                                  !.scores = Append(@, evaluate(neighbor)),
                                  !.step = @ + 1]
              /\ pc' = IF is_goal(neighbor) THEN "first_return" ELSE "first_loop"
    /\ UNCHANGED <<mem, alg, arg, sa, rr, ret, attempts, result, state, neighbors, moves>>

\* neighbors is empty, or the scan found no neighbour to accept.
FirstChoiceStuck ==
    /\ pc = "first_loop"
    /\ hc.step < hc.max_steps
    /\ Acceptable(hc) = {}
    /\ pc' = "first_return"
    /\ UNCHANGED <<mem, alg, arg, hc, sa, rr, ret, attempts, result, state, neighbors, moves>>

FirstChoiceExhausted ==
    /\ pc = "first_loop"
    /\ hc.step >= hc.max_steps
    /\ pc' = "first_return"
    /\ UNCHANGED <<mem, alg, arg, hc, sa, rr, ret, attempts, result, state, neighbors, moves>>

FirstChoiceReturn ==
    /\ pc = "first_return"
    /\ ret' = <<hc.current, hc.scores>>
    /\ result' = <<hc.current, hc.scores>>
    /\ pc' = "done"
    /\ UNCHANGED <<mem, alg, arg, hc, sa, rr, attempts, state, neighbors, moves>>

(***************************************************************************)
(* HillClimbing.random_restart                                             *)
(***************************************************************************)
StartRestart ==
    /\ pc = "start"
    /\ alg = "random_restart"
    /\ rr' = RestartFrame(arg.initial_state, arg.max_restarts)
    /\ pc' = "restart_loop"
    /\ UNCHANGED <<mem, alg, arg, hc, sa, ret, attempts, result, state, neighbors, moves>>

\* The head of the loop: another attempt, steepest_ascent with its default
\* max_steps on the frame's initial_state.
RestartAttempt ==
    /\ pc = "restart_loop"
    /\ alg = "random_restart"
    /\ rr.count < rr.limit
    /\ hc' = HillFrame(rr.initial_state, DefaultMaxSteps)
    /\ pc' = "steepest_loop"
    /\ UNCHANGED <<mem, alg, arg, sa, rr, ret, attempts, result, state, neighbors, moves>>

\* AfterAttempt with each attempt's trace joined without its first entry.
AfterAttemptDropsFirst(f, r, fresh) ==
    LET current_state == r[1]
        current_scores == r[2]
        current_score == evaluate(current_state)
        better == current_score > f.best_score
    IN  [f EXCEPT !.best_state = IF better THEN current_state ELSE @,
                  !.best_score = IF better THEN current_score ELSE @,
                  !.all_scores = @ \o Tail(current_scores),
                  !.initial_state = IF is_goal(current_state) THEN @ ELSE fresh,
                  !.count = @ + 1]

\* AfterAttempt with the latest attempt always taken as the best.
AfterAttemptKeepsLatest(f, r, fresh) ==
    LET current_state == r[1]
        current_scores == r[2]
        current_score == evaluate(current_state)
    IN  [f EXCEPT !.best_state = current_state,
                  !.best_score = current_score,
                  !.all_scores = @ \o current_scores,
                  !.initial_state = IF is_goal(current_state) THEN @ ELSE fresh,
                  !.count = @ + 1]

\* The rest of the loop body once the attempt has returned into ret.
AfterAttempt(f, r, fresh) ==
    LET current_state == r[1]
        current_scores == r[2]
        current_score == evaluate(current_state)
        better == current_score > f.best_score
    IN  [f EXCEPT !.best_state = IF better THEN current_state ELSE @,
                  !.best_score = IF better THEN current_score ELSE @,
                  !.all_scores = @ \o current_scores,
                  !.initial_state = IF is_goal(current_state) THEN @ ELSE fresh,
                  !.count = @ + 1]

RestartAfter ==
    /\ pc = "restart_after"
    /\ alg = "random_restart"
    /\ \E fresh \in generate_random_state(rr.initial_state) :
          rr' = AfterAttempt(rr, ret, fresh)
    /\ attempts' = Append(attempts, ret)
    /\ pc' = IF is_goal(ret[1]) THEN "restart_return" ELSE "restart_loop"
    /\ UNCHANGED <<mem, alg, arg, hc, sa, ret, result, state, neighbors, moves>>

RestartExhausted ==
    /\ pc = "restart_loop"
    /\ rr.count >= rr.limit
    /\ pc' = "restart_return"
    /\ UNCHANGED <<mem, alg, arg, hc, sa, rr, ret, attempts, result, state, neighbors, moves>>

RestartReturn ==
    /\ pc = "restart_return"
    /\ result' = <<rr.best_state, rr.all_scores>>
    /\ pc' = "done"
    /\ UNCHANGED <<mem, alg, arg, hc, sa, rr, ret, attempts, state, neighbors, moves>>

(***************************************************************************)
(* SimulatedAnnealing.anneal                                               *)
(***************************************************************************)
\* delta > 0 accepts without a draw.  Otherwise the draw decides:
\* random.random() is below 1.0, which is exp(0), whatever it draws, and for
\* delta < 0 it can fall on either side of exp(delta / temp).
Accepts(delta, temp, draw) == delta > 0 \/ delta = 0 \/ draw

\* AnnealBody without the update of the best state.
AnnealBodyNoBest(f, k, draw) ==
    LET next_state == get_neighbors(f.current)[k]
        next_score == evaluate(next_state)
        delta == next_score - f.current_score
    IN  IF Accepts(delta, f.temp, draw)
        THEN [f EXCEPT !.current = next_state,
                       !.current_score = next_score,
                       !.scores = Append(@, next_score),
                       !.step = @ + 1]
        ELSE [f EXCEPT !.step = @ + 1]

\* AnnealBody logging the current score after a rejected neighbour too.
AnnealBodyLogsRejections(f, k, draw) ==
    LET next_state == get_neighbors(f.current)[k]
        next_score == evaluate(next_state)
        delta == next_score - f.current_score
    IN  IF Accepts(delta, f.temp, draw)
        THEN LET better == next_score > f.best_score
             IN  [f EXCEPT !.current = next_state,
                           !.current_score = next_score,
                           !.scores = Append(@, next_score),
                           !.best_state = IF better THEN next_state ELSE @,
                           !.best_score = IF better THEN next_score ELSE @,
                           !.step = @ + 1]
        ELSE [f EXCEPT !.scores = Append(@, f.current_score), !.step = @ + 1]

AnnealBody(f, k, draw) ==
    LET next_state == get_neighbors(f.current)[k]
        next_score == evaluate(next_state)
        delta == next_score - f.current_score
    IN  IF Accepts(delta, f.temp, draw)
        THEN LET better == next_score > f.best_score
             IN  [f EXCEPT !.current = next_state,
                           !.current_score = next_score,
                           !.scores = Append(@, next_score),
                           !.best_state = IF better THEN next_state ELSE @,
                           !.best_score = IF better THEN next_score ELSE @,
                           !.step = @ + 1]
        ELSE [f EXCEPT !.step = @ + 1]

StartAnneal ==
    /\ pc = "start"
    /\ alg = "anneal"
    /\ sa' = AnnealFrame(arg.initial_state, arg.initial_temp, arg.min_temp,
                         arg.steps_per_temp)
    /\ pc' = "anneal_while"
    /\ UNCHANGED <<mem, alg, arg, hc, rr, ret, attempts, result, state, neighbors, moves>>

\* while temp > min_temp: enter the for loop.
AnnealWhile ==
    /\ pc = "anneal_while"
    /\ sa.temp > sa.min_temp
    /\ sa' = [sa EXCEPT !.step = 0]
    /\ pc' = "anneal_for"
    /\ UNCHANGED <<mem, alg, arg, hc, rr, ret, attempts, result, state, neighbors, moves>>

\* The loop ends with the temperature at or below min_temp: return best_state.
AnnealCooled ==
    /\ pc = "anneal_while"
    /\ sa.temp <= sa.min_temp
    /\ ret' = <<sa.best_state, sa.scores>>
    /\ pc' = "anneal_return"
    /\ UNCHANGED <<mem, alg, arg, hc, sa, rr, attempts, result, state, neighbors, moves>>

AnnealIter ==
    /\ pc = "anneal_for"
    /\ sa.step < sa.steps_per_temp
    /\ get_neighbors(sa.current) # <<>>
    /\ \E k \in 1 .. Len(get_neighbors(sa.current)), draw \in BOOLEAN :
          LET f == AnnealBody(sa, k, draw)
          IN  /\ sa' = f
              /\ IF is_goal(f.current)
                 THEN ret' = <<f.current, f.scores>> /\ pc' = "anneal_return"
                 ELSE ret' = ret /\ pc' = "anneal_for"
    /\ UNCHANGED <<mem, alg, arg, hc, rr, attempts, result, state, neighbors, moves>>

\* AnnealCool without the break on an empty neighbour list.
AnnealCoolNoBreak ==
    /\ pc = "anneal_for"
    /\ sa.step >= sa.steps_per_temp
    /\ sa' = [sa EXCEPT !.temp = (@ * CoolingRate.num) \div CoolingRate.den]
    /\ pc' = "anneal_while"
    /\ UNCHANGED <<mem, alg, arg, hc, rr, ret, attempts, result, state, neighbors, moves>>

\* The for loop is left by its break (no neighbours) or by running out.
AnnealCool ==
    /\ pc = "anneal_for"
    /\ sa.step >= sa.steps_per_temp \/ get_neighbors(sa.current) = <<>>
    /\ sa' = [sa EXCEPT !.temp = (@ * CoolingRate.num) \div CoolingRate.den]
    /\ pc' = "anneal_while"
    /\ UNCHANGED <<mem, alg, arg, hc, rr, ret, attempts, result, state, neighbors, moves>>

AnnealReturn ==
    /\ pc = "anneal_return"
    /\ IF alg = "anneal"
       THEN result' = ret /\ pc' = "done"
       ELSE result' = result /\ pc' = "restart_after"
    /\ UNCHANGED <<mem, alg, arg, hc, sa, rr, ret, attempts, state, neighbors, moves>>

(***************************************************************************)
(* SimulatedAnnealing.random_restart_anneal                                *)
(***************************************************************************)
StartRestartAnneal ==
    /\ pc = "start"
    /\ alg = "random_restart_anneal"
    /\ rr' = RestartAnnealFrame(arg.initial_state, arg.num_restarts)
    /\ pc' = "restart_loop"
    /\ UNCHANGED <<mem, alg, arg, hc, sa, ret, attempts, result, state, neighbors, moves>>

\* The head of the loop: another anneal on the frame's initial_state, with
\* the caller's keyword arguments.
RestartAnnealAttempt ==
    /\ pc = "restart_loop"
    /\ alg = "random_restart_anneal"
    /\ rr.count < rr.limit
    /\ sa' = AnnealFrame(rr.initial_state, arg.initial_temp, arg.min_temp,
                         arg.steps_per_temp)
    /\ pc' = "anneal_while"
    /\ UNCHANGED <<mem, alg, arg, hc, rr, ret, attempts, result, state, neighbors, moves>>

RestartAnnealAfter ==
    /\ pc = "restart_after"
    /\ alg = "random_restart_anneal"
    /\ \E fresh \in generate_random_state(rr.initial_state) :
          rr' = AfterAttempt(rr, ret, fresh)
    /\ attempts' = Append(attempts, ret)
    /\ pc' = IF is_goal(ret[1]) THEN "restart_return" ELSE "restart_loop"
    /\ UNCHANGED <<mem, alg, arg, hc, sa, ret, result, state, neighbors, moves>>

Next ==
    \/ StartSteepest
    \/ SteepestIter
    \/ SteepestExhausted
    \/ SteepestReturn
    \/ StartFirstChoice
    \/ FirstChoiceMove
    \/ FirstChoiceStuck
    \/ FirstChoiceExhausted
    \/ FirstChoiceReturn
    \/ StartRestart
    \/ RestartAttempt
    \/ RestartAfter
    \/ RestartExhausted
    \/ RestartReturn
    \/ StartAnneal
    \/ AnnealWhile
    \/ AnnealCooled
    \/ AnnealIter
    \/ AnnealCool
    \/ AnnealReturn
    \/ StartRestartAnneal
    \/ RestartAnnealAttempt
    \/ RestartAnnealAfter

Spec == Init /\ [][Next]_vars

\* The hill-climbing entry points alone.
InitHill == Init /\ alg \in {"steepest_ascent", "first_choice", "random_restart"}

NextHill ==
    \/ StartSteepest
    \/ SteepestIter
    \/ SteepestExhausted
    \/ SteepestReturn
    \/ StartFirstChoice
    \/ FirstChoiceMove
    \/ FirstChoiceStuck
    \/ FirstChoiceExhausted
    \/ FirstChoiceReturn
    \/ StartRestart
    \/ RestartAttempt
    \/ RestartAfter
    \/ RestartExhausted
    \/ RestartReturn

SpecHill == InitHill /\ [][NextHill]_vars

\* anneal alone.
InitAnneal == Init /\ alg = "anneal"

NextAnneal ==
    \/ StartAnneal
    \/ AnnealWhile
    \/ AnnealCooled
    \/ AnnealIter
    \/ AnnealCool
    \/ AnnealReturn

SpecAnneal == InitAnneal /\ [][NextAnneal]_vars

\* The entry points that make one run: steepest_ascent, first_choice and
\* anneal.  Each is a sequential loop, so a step that can be taken is taken.
InitSingle ==
    /\ Init
    /\ alg \in {"steepest_ascent", "first_choice", "anneal"}
    /\ arg.initial_state \in ClimbInputs

NextSingle ==
    \/ StartSteepest
    \/ SteepestIter
    \/ SteepestExhausted
    \/ SteepestReturn
    \/ StartFirstChoice
    \/ FirstChoiceMove
    \/ FirstChoiceStuck
    \/ FirstChoiceExhausted
    \/ FirstChoiceReturn
    \/ StartAnneal
    \/ AnnealWhile
    \/ AnnealCooled
    \/ AnnealIter
    \/ AnnealCool
    \/ AnnealReturn

\* The runs that start on a state without neighbours are the ones whose
\* termination is in question; the fairness condition is stated for them.
\* get_neighbors lists nothing: every (row, col) pair is skipped by the column
\* test, or the blank has no move.
NoNeighbors(s) ==
    IF s.kind = "QueenHillClimbing"
    THEN \A row \in 0 .. s.size - 1 : \A col \in 0 .. s.size - 1 :
             col = s.queen_cols[row]
    ELSE get_possible_moves(s) = <<>>

NoNeighborsRun == NoNeighbors(arg.initial_state)

\* Every step of a run changes its position or its frame.
position == <<pc, hc, sa>>

SpecSingle ==
    /\ InitSingle
    /\ [][NextSingle]_vars
    /\ WF_position(NoNeighborsRun /\ NextSingle)

(***************************************************************************)
(* The fixtures on their own: a caller that builds a state, lists its      *)
(* neighbours and goes on from one of them.                                *)
(***************************************************************************)
Idle ==
    /\ alg = "none"
    /\ arg = None
    /\ hc = None
    /\ sa = None
    /\ rr = None
    /\ ret = <<>>
    /\ attempts = <<>>
    /\ result = <<>>

InitQueens ==
    /\ mem = None
    /\ Idle
    /\ pc = "state"
    /\ state \in {QueenState(size) : size \in 1 .. MaxSize}
    /\ neighbors = <<>>
    /\ moves = 0

InitPuzzle ==
    /\ mem = None
    /\ Idle
    /\ pc = "state"
    /\ state \in PuzzleInputs
    /\ neighbors = <<>>
    /\ moves = 0

\* place_queen with any row and column, those it refuses included.
PlaceQueen ==
    /\ pc = "state"
    /\ state.kind = "QueenHillClimbing"
    /\ \E row \in -1 .. state.size, col \in -1 .. state.size :
          state' = place_queen(state, row, col)
    /\ UNCHANGED <<mem, alg, pc, arg, hc, sa, rr, ret, attempts, result, neighbors, moves>>

GetNeighbors ==
    /\ pc = "state"
    /\ neighbors' = get_neighbors(state)
    /\ pc' = "neighbors"
    /\ UNCHANGED <<mem, alg, arg, hc, sa, rr, ret, attempts, result, state, moves>>

Descend ==
    /\ pc = "neighbors"
    /\ moves < MaxMoves
    /\ \E k \in 1 .. Len(neighbors) : state' = neighbors[k]
    /\ neighbors' = <<>>
    /\ pc' = "state"
    /\ moves' = moves + 1
    /\ UNCHANGED <<mem, alg, arg, hc, sa, rr, ret, attempts, result>>

NextQueens == PlaceQueen \/ GetNeighbors \/ Descend

SpecQueens == InitQueens /\ [][NextQueens]_vars

NextPuzzle == GetNeighbors \/ Descend

SpecPuzzle == InitPuzzle /\ [][NextPuzzle]_vars

(***************************************************************************)
(* The same fixtures with Python's references kept.  heap[a] is the list   *)
(* at address a: a board is a list of the addresses of its three rows, a   *)
(* row and a column array are lists of numbers.  objects[j] is a state     *)
(* object holding the address of its board or column array; a puzzle       *)
(* object holds the index of its goal object.  parent is the object whose  *)
(* get_neighbors built it (0 for none).  The EightPuzzleState that move    *)
(* returns inside get_neighbors is dropped at once and is not kept here;   *)
(* its board is the neighbour's board.                                     *)
(***************************************************************************)
\* [row[:] for row in ...]: three new rows and a new list of them.
NewBoard(heap, board) ==
    LET base == Len(heap)
        rows == [i \in 1 .. PuzzleSize |->
                    [j \in 1 .. PuzzleSize |-> board[i - 1][j - 1]]]
    IN  [heap |-> (heap \o rows) \o <<[i \in 1 .. PuzzleSize |-> base + i]>>,
         addr |-> base + PuzzleSize + 1]

\* copy.copy in place of copy.deepcopy: a new list of the same rows.
shallowcopy(heap, a) ==
    [heap |-> Append(heap, heap[a]), addr |-> Len(heap) + 1]

\* copy.deepcopy(self.board): a new list of new rows.
deepcopy(heap, a) ==
    LET base == Len(heap)
        n == Len(heap[a])
        rows == [i \in 1 .. n |-> heap[heap[a][i]]]
    IN  [heap |-> (heap \o rows) \o <<[i \in 1 .. n |-> base + i]>>,
         addr |-> base + n + 1]

\* list.copy() of a column array.
listcopy(heap, a) ==
    [heap |-> Append(heap, heap[a]), addr |-> Len(heap) + 1]

\* board[i][j] read and written through the addresses.
BoardAt(heap, a) ==
    [i \in 0 .. Len(heap[a]) - 1 |->
        [j \in 0 .. Len(heap[heap[a][i + 1]]) - 1 |-> heap[heap[a][i + 1]][j + 1]]]

SetCell(heap, a, i, j, v) == [heap EXCEPT ![heap[a][i + 1]][j + 1] = v]

ColsAt(heap, a) == [r \in 0 .. Len(heap[a]) - 1 |-> heap[a][r + 1]]

\* EightPuzzleState.move on the object o: the heap after it and the address
\* of new_board, 0 when move returns None.
HeapMove(heap, o, direction) ==
    IF direction \notin Directions THEN [heap |-> heap, addr |-> 0]
    ELSE LET d == Delta(direction)
             bx == o.blank_pos[1]
             by == o.blank_pos[2]
             new_x == bx + d[1]
             new_y == by + d[2]
         IN  IF 0 <= new_x /\ new_x < o.size /\ 0 <= new_y /\ new_y < o.size
             THEN LET c == deepcopy(heap, o.board)
                      h1 == SetCell(c.heap, c.addr, bx, by,
                                    BoardAt(c.heap, c.addr)[new_x][new_y])
                      h2 == SetCell(h1, c.addr, new_x, new_y, 0)
                  IN  [heap |-> h2, addr |-> c.addr]
             ELSE [heap |-> heap, addr |-> 0]

\* EightPuzzleHillClimbing.get_neighbors of objects[c], one move after the
\* other: each neighbour takes new_state.board and self.goal as they are.
RECURSIVE HeapPuzzleNeighbors(_, _, _, _)
HeapPuzzleNeighbors(heap, objects, c, ms) ==
    IF ms = <<>> THEN [heap |-> heap, objects |-> objects]
    ELSE LET r == HeapMove(heap, objects[c], Head(ms))
             n == [kind |-> "EightPuzzleHillClimbing", board |-> r.addr,
                   size |-> PuzzleSize,
                   blank_pos |-> find_blank(BoardAt(r.heap, r.addr)),
                   goal |-> objects[c].goal, parent |-> c]
         IN  IF r.addr = 0
             THEN HeapPuzzleNeighbors(heap, objects, c, Tail(ms))
             ELSE HeapPuzzleNeighbors(r.heap, Append(objects, n), c, Tail(ms))

\* QueenHillClimbing.get_neighbors of objects[c]: ps is the (row, new_col)
\* pairs of the two loops still to visit.
RECURSIVE HeapQueenNeighbors(_, _, _, _)
HeapQueenNeighbors(heap, objects, c, ps) ==
    IF ps = <<>> THEN [heap |-> heap, objects |-> objects]
    ELSE LET row == Head(ps)[1]
             new_col == Head(ps)[2]
             current_col == heap[objects[c].queen_cols][row + 1]
             cp == listcopy(heap, objects[c].queen_cols)
             n == [kind |-> "QueenHillClimbing", size |-> objects[c].size,
                   queen_cols |-> cp.addr, parent |-> c]
         IN  IF new_col # current_col
             THEN HeapQueenNeighbors([cp.heap EXCEPT ![cp.addr][row + 1] = new_col],
                                     Append(objects, n), c, Tail(ps))
             ELSE HeapQueenNeighbors(heap, objects, c, Tail(ps))

AllPairs(n) == [k \in 1 .. n * n |-> <<(k - 1) \div n, (k - 1) % n>>]

HeapNeighbors(heap, objects, c) ==
    IF objects[c].kind = "QueenHillClimbing"
    THEN HeapQueenNeighbors(heap, objects, c, AllPairs(objects[c].size))
    ELSE HeapPuzzleNeighbors(heap, objects, c, get_possible_moves(objects[c]))

\* A state built by its constructor from new lists: the goal object first,
\* then the puzzle object; or the queens object alone.
NewState(heap, objects, s) ==
    IF s.kind = "QueenHillClimbing"
    THEN [heap |-> Append(heap, [r \in 1 .. s.size |-> s.queen_cols[r - 1]]),
          objects |-> Append(objects,
              [kind |-> "QueenHillClimbing", size |-> s.size,
               queen_cols |-> Len(heap) + 1, parent |-> 0])]
    ELSE LET g == NewBoard(heap, s.goal.board)
             b == NewBoard(g.heap, s.board)
         IN  [heap |-> b.heap,
              objects |-> objects \o
                  <<[kind |-> "EightPuzzleState", board |-> g.addr,
                     size |-> PuzzleSize, blank_pos |-> s.goal.blank_pos],
                    [kind |-> "EightPuzzleHillClimbing", board |-> b.addr,
                     size |-> PuzzleSize, blank_pos |-> s.blank_pos,
                     goal |-> Len(objects) + 1, parent |-> 0]>>]

HeapInputs ==
    {Queens(<<0>>), Queens(<<0, 0>>), Puzzle(FixedGoal, FixedGoal),
     Puzzle(TwoMoves, OtherGoal)}

InitHeap ==
    /\ Idle
    /\ pc = "heap"
    /\ state = None
    /\ neighbors = <<>>
    /\ moves = 0
    /\ \E s \in HeapInputs :
          LET m == NewState(<<>>, <<>>, s)
          IN  mem = [heap |-> m.heap, objects |-> m.objects,
                     current |-> Len(m.objects), listed |-> <<>>, written |-> 0,
                     listings |-> 0, restarts |-> 0, writes |-> 0]

\* neighbors = current.get_neighbors()
HeapGetNeighbors ==
    /\ pc = "heap"
    /\ mem.listings < MaxListings
    /\ LET r == HeapNeighbors(mem.heap, mem.objects, mem.current)
       IN  mem' = [mem EXCEPT !.heap = r.heap, !.objects = r.objects,
                              !.listed = [k \in 1 .. Len(r.objects) - Len(mem.objects)
                                             |-> Len(mem.objects) + k],
                              !.written = 0, !.listings = @ + 1]
    /\ UNCHANGED <<alg, pc, arg, hc, sa, rr, ret, attempts, result, state, neighbors, moves>>

\* current = best_neighbor, current = neighbor, current = next_state: the
\* policies differ in the neighbour they take, not in what taking it does.
\* The walk ends with its last listing.
HeapAdvance ==
    /\ pc = "heap"
    /\ mem.listings < MaxListings
    /\ \E k \in 1 .. Len(mem.listed) :
          mem' = [mem EXCEPT !.current = mem.listed[k], !.listed = <<>>,
                             !.written = 0]
    /\ UNCHANGED <<alg, pc, arg, hc, sa, rr, ret, attempts, result, state, neighbors, moves>>

\* One of the states generate_random_state can return, per family: what the
\* lists hold does not change how they are allocated.
HeapFresh(kind) ==
    LET fresh == generate_random_state([kind |-> kind])
    IN  {CHOOSE s \in fresh : TRUE}

\* initial_state = generate_random_state() of the restart loops.
HeapRestart ==
    /\ pc = "heap"
    /\ mem.restarts < MaxFresh
    /\ \E s \in HeapFresh(mem.objects[mem.current].kind) :
          LET m == NewState(mem.heap, mem.objects, s)
          IN  mem' = [mem EXCEPT !.heap = m.heap, !.objects = m.objects,
                                 !.current = Len(m.objects), !.listed = <<>>,
                                 !.written = 0, !.restarts = @ + 1]
    /\ UNCHANGED <<alg, pc, arg, hc, sa, rr, ret, attempts, result, state, neighbors, moves>>

\* The caller changes one cell of a listed neighbour in place, to a value
\* other than the one it holds: place_queen on a queens neighbour (of up to
\* MaxSize rows), an assignment to board[i][j] on a puzzle neighbour.
HeapWrite ==
    /\ pc = "heap"
    /\ mem.writes < MaxWrites
    /\ \E k \in 1 .. Len(mem.listed) :
          LET t == mem.listed[k]
              o == mem.objects[t]
          IN  \/ /\ o.kind = "QueenHillClimbing"
                 /\ o.size <= MaxSize
                 /\ \E row \in 0 .. o.size - 1, col \in 0 .. o.size - 1 :
                       /\ col # mem.heap[o.queen_cols][row + 1]
                       /\ mem' = [mem EXCEPT !.heap[o.queen_cols][row + 1] = col,
                                             !.written = t, !.writes = @ + 1]
              \/ /\ o.kind = "EightPuzzleHillClimbing"
                 /\ \E i \in 0 .. o.size - 1, j \in 0 .. o.size - 1 :
                       mem' = [mem EXCEPT
                                  !.heap = SetCell(@, o.board, i, j,
                                               BoardAt(@, o.board)[i][j] + 1),
                                  !.written = t, !.writes = @ + 1]
    /\ UNCHANGED <<alg, pc, arg, hc, sa, rr, ret, attempts, result, state, neighbors, moves>>

NextHeap == HeapGetNeighbors \/ HeapAdvance \/ HeapRestart \/ HeapWrite

SpecHeap == InitHeap /\ [][NextHeap]_vars

(***************************************************************************)
(* Properties.                                                             *)
(***************************************************************************)
NonDecreasing(s) == \A i \in 1 .. Len(s) - 1 : s[i] <= s[i + 1]

RECURSIVE ConcatTraces(_)
ConcatTraces(rs) ==
    IF rs = <<>> THEN <<>> ELSE Head(rs)[2] \o ConcatTraces(Tail(rs))

MaxOf(S) == CHOOSE m \in S : \A x \in S : x <= m

Returned == pc = "done"

\* C1: every entry point returns a trace that is not empty and whose first
\* entry is the score of the initial state passed in, whatever the
\* configuration (max_steps, max_restarts, num_restarts of 0 included).
C1_TraceStartsWithInitialScore ==
    Returned =>
        /\ Len(result[2]) >= 1
        /\ result[2][1] = evaluate(arg.initial_state)

\* C2: the trace of steepest_ascent and the trace of first_choice never
\* decrease from one entry to the next, while they run and when they return.
C2_HillTracesNonDecreasing ==
    /\ hc # None => NonDecreasing(hc.scores)
    /\ (Returned /\ alg \in {"steepest_ascent", "first_choice"}) =>
           NonDecreasing(result[2])

\* first_choice has returned after a tie and then a gain.
C2_Witness ==
    /\ Returned
    /\ alg = "first_choice"
    /\ Len(result[2]) = 3
    /\ result[2][1] = result[2][2]
    /\ result[2][2] < result[2][3]

\* C3: anneal that ends by cooling returns best_state, whose score is the
\* maximum of the returned trace; anneal that ends inside the loop returns
\* the current state, which is a goal.
C3_AnnealReturnsBestOrGoal ==
    (Returned /\ alg = "anneal") =>
        /\ sa.temp <= sa.min_temp =>
              /\ result[1] = sa.best_state
              /\ evaluate(result[1]) = MaxSeq(result[2])
              /\ \A i \in 1 .. Len(result[2]) : result[2][i] <= evaluate(result[1])
        /\ sa.temp > sa.min_temp =>
              /\ result[1] = sa.current
              /\ is_goal(result[1])

\* anneal has cooled down on a state that is no goal and scores less than an
\* earlier one.
C3_Witness ==
    /\ Returned
    /\ alg = "anneal"
    /\ sa.temp <= sa.min_temp
    /\ ~is_goal(sa.current)
    /\ Len(result[2]) >= 3
    /\ Last(result[2]) < evaluate(result[1])
    /\ result[1] # sa.current

\* C4 as claimed: the trace random_restart returns is the concatenation of
\* its attempts' traces and nothing else.
C4_TraceIsConcatenation ==
    (Returned /\ alg = "random_restart") => result[2] = ConcatTraces(attempts)

\* C4: the trace of random_restart is the initial state's score followed by
\* the attempts' traces, in order, with nothing between or after them.
C4_TraceIsInitialScoreThenConcatenation ==
    /\ (alg = "random_restart" /\ rr # None) =>
           rr.all_scores = <<evaluate(arg.initial_state)>> \o ConcatTraces(attempts)
    /\ (Returned /\ alg = "random_restart") =>
           result[2] = <<evaluate(arg.initial_state)>> \o ConcatTraces(attempts)

\* random_restart has returned after two attempts that both moved.
C4_Witness ==
    /\ Returned
    /\ alg = "random_restart"
    /\ Len(attempts) = 2
    /\ Len(attempts[1][2]) >= 2
    /\ Len(attempts[2][2]) >= 2

AttemptRunning == pc \in {"steepest_loop", "steepest_return", "restart_after"}

\* C5: random_restart runs at most max_restarts attempts, none after an attempt
\* that ended on a goal, and returns a state whose score is the greatest of
\* the initial score and the attempts' final scores; the returned state is a
\* goal when an attempt reached one.
C5_RestartBestOfAttempts ==
    alg = "random_restart" =>
        /\ Len(attempts) + (IF AttemptRunning THEN 1 ELSE 0) <= arg.max_restarts
        /\ \A i \in 1 .. Len(attempts) - 1 : ~is_goal(attempts[i][1])
        /\ (AttemptRunning \/ pc = "restart_loop") =>
               \A i \in 1 .. Len(attempts) : ~is_goal(attempts[i][1])
        /\ Returned =>
               /\ evaluate(result[1]) =
                      MaxOf({evaluate(arg.initial_state)}
                            \cup {evaluate(attempts[i][1]) : i \in 1 .. Len(attempts)})
               /\ (\E i \in 1 .. Len(attempts) : is_goal(attempts[i][1])) =>
                      is_goal(result[1])

\* random_restart has returned a goal found by its second attempt, after a
\* first attempt that ended on a state that is no goal.
C5_Witness ==
    /\ Returned
    /\ alg = "random_restart"
    /\ Len(attempts) = 2
    /\ ~is_goal(attempts[1][1])
    /\ is_goal(attempts[2][1])
    /\ is_goal(result[1])

Unset(s) == {r \in 0 .. s.size - 1 : s.queen_cols[r] = -1}

DiffRows(s, n) == {r \in 0 .. s.size - 1 : s.queen_cols[r] # n.queen_cols[r]}

OneRowMoved(s, n) ==
    /\ n.kind = s.kind
    /\ n.size = s.size
    /\ Cardinality(DiffRows(s, n)) = 1

Listed == pc = "neighbors" /\ state.kind = "QueenHillClimbing"

\* C6 as claimed: get_neighbors of a queens state of size N, rows still unset
\* included, returns N * (N - 1) states, each differing from the parent in
\* the column of exactly one row.
C6_NeighborCountAnyState ==
    Listed =>
        /\ Len(neighbors) = state.size * (state.size - 1)
        /\ \A k \in 1 .. Len(neighbors) : OneRowMoved(state, neighbors[k])

\* C6: get_neighbors of a queens state of size N returns N * (N - 1) states
\* plus one more for each row still unset (N * (N - 1) when every row is set),
\* each differing from the parent in the column of exactly one row.
C6_NeighborCountWithUnsetRows ==
    Listed =>
        /\ Len(neighbors) =
               state.size * (state.size - 1) + Cardinality(Unset(state))
        /\ Unset(state) = {} => Len(neighbors) = state.size * (state.size - 1)
        /\ \A k \in 1 .. Len(neighbors) : OneRowMoved(state, neighbors[k])

\* The neighbours of a state of size 3 with one row unset and two rows set.
C6_Witness ==
    /\ Listed
    /\ state.size = 3
    /\ Cardinality(Unset(state)) = 1
    /\ Len(neighbors) = 7

IsPermutation(board) ==
    \A v \in 0 .. PuzzleSize * PuzzleSize - 1 :
        Cardinality({c \in Cells : board[c[1]][c[2]] = v}) = 1

WellFormed(s) ==
    /\ IsPermutation(s.board)
    /\ Cardinality({c \in Cells : s.board[c[1]][c[2]] = 0}) = 1
    /\ s.board[s.blank_pos[1]][s.blank_pos[2]] = 0

Adjacent(c, d) == Abs(c[1] - d[1]) + Abs(c[2] - d[2]) = 1

\* n's board is s's board with the blank and one tile next to it exchanged.
BlankSwap(s, n) ==
    \E c \in Cells :
        /\ Adjacent(c, s.blank_pos)
        /\ n.board[c[1]][c[2]] = 0
        /\ n.board[s.blank_pos[1]][s.blank_pos[2]] = s.board[c[1]][c[2]]
        /\ \A e \in Cells \ {c, s.blank_pos} :
               n.board[e[1]][e[2]] = s.board[e[1]][e[2]]

\* C7: get_neighbors of a puzzle state holding 0..8 once each returns 2 to 4
\* states, each the parent with the blank and one orthogonally adjacent tile
\* exchanged; every state reached by moves holds 0..8 once each, has one
\* blank, and has blank_pos on it.
C7_PuzzleNeighborsAreBlankSwaps ==
    state.kind = "EightPuzzleHillClimbing" =>
        /\ WellFormed(state)
        /\ pc = "neighbors" =>
               /\ 2 <= Len(neighbors) /\ Len(neighbors) <= 4
               /\ \A k \in 1 .. Len(neighbors) :
                      /\ BlankSwap(state, neighbors[k])
                      /\ WellFormed(neighbors[k])
                      /\ neighbors[k].goal = state.goal

\* The four neighbours of a state reached by two moves, its blank in the centre.
C7_Witness ==
    /\ state.kind = "EightPuzzleHillClimbing"
    /\ pc = "neighbors"
    /\ moves >= 2
    /\ state.blank_pos = <<1, 1>>
    /\ Len(neighbors) = 4

Annealing == pc \in {"anneal_while", "anneal_for", "anneal_return"}

BestIsMaximum ==
    sa # None =>
        /\ sa.best_score >= sa.current_score
        /\ sa.best_score = MaxSeq(sa.scores)
        /\ sa.best_score = evaluate(sa.best_state)

BestNeverDrops == (Annealing /\ Annealing') => sa'.best_score >= sa.best_score

\* C8: throughout an anneal run the best score kept is at least the current
\* state's score and equals the maximum of the trace so far, and no step of
\* the run lowers it.
C8_BestScoreMonotone == []BestIsMaximum /\ [][BestNeverDrops]_vars

\* anneal is running on a state below its best after two accepted moves, the
\* first of them a gain.
C8_Witness ==
    /\ alg = "anneal"
    /\ pc = "anneal_for"
    /\ Len(sa.scores) >= 3
    /\ sa.scores[1] < sa.best_score
    /\ sa.current_score < sa.best_score

NoBetterNeighbor(s) ==
    \A k \in 1 .. Len(get_neighbors(s)) : evaluate(get_neighbors(s)[k]) <= evaluate(s)

\* The state the running hill-climbing call was given.
CallInitial == IF alg = "random_restart" THEN rr.initial_state ELSE arg.initial_state

SteepestMoveIsBest ==
    (pc = "steepest_loop" /\ pc' \in {"steepest_loop", "steepest_return"}
       /\ hc'.current # hc.current) =>
        /\ \E k \in 1 .. Len(get_neighbors(hc.current)) :
               hc'.current = get_neighbors(hc.current)[k]
        /\ \A k \in 1 .. Len(get_neighbors(hc.current)) :
               evaluate(get_neighbors(hc.current)[k]) <= evaluate(hc'.current)
        /\ evaluate(hc'.current) > evaluate(hc.current)
        /\ hc'.scores = Append(hc.scores, evaluate(hc'.current))

SteepestStops ==
    pc = "steepest_return" =>
        /\ \/ is_goal(hc.current)
           \/ NoBetterNeighbor(hc.current)
           \/ Len(hc.scores) - 1 = hc.max_steps
        /\ is_goal(CallInitial) => hc.current = CallInitial /\ Len(hc.scores) = 1

\* C9: steepest_ascent moves only to a neighbour whose score no neighbour
\* exceeds and which is above the current score; it returns a goal, or a state
\* with no neighbour above it, or after max_steps moves; started on a goal it
\* returns it with a trace of one entry.
C9_SteepestAscent == []SteepestStops /\ [][SteepestMoveIsBest]_vars

\* steepest_ascent has returned, after a move and before max_steps moves, a
\* state that is no goal and has no neighbour above it.
C9_Witness ==
    /\ Returned
    /\ alg = "steepest_ascent"
    /\ Len(result[2]) = 2
    /\ arg.max_steps = 2
    /\ ~is_goal(result[1])
    /\ NoBetterNeighbor(result[1])

AllNeighborsLower(s) ==
    \A k \in 1 .. Len(get_neighbors(s)) : evaluate(get_neighbors(s)[k]) < evaluate(s)

FirstChoiceMoveIsNoLoss ==
    (pc = "first_loop" /\ hc'.current # hc.current) =>
        /\ \E k \in 1 .. Len(get_neighbors(hc.current)) :
               hc'.current = get_neighbors(hc.current)[k]
        /\ evaluate(hc'.current) >= evaluate(hc.current)
        /\ hc'.scores = Append(hc.scores, evaluate(hc'.current))
        /\ hc'.step = hc.step + 1

FirstChoiceStops ==
    /\ pc \in {"first_loop", "first_return"} =>
           /\ Len(hc.scores) = hc.step + 1
           /\ Len(hc.scores) <= hc.max_steps + 1
    /\ pc = "first_return" =>
           \/ is_goal(hc.current)
           \/ AllNeighborsLower(hc.current)
           \/ Len(hc.scores) - 1 = hc.max_steps
    /\ (Returned /\ alg = "first_choice") => Len(result[2]) <= arg.max_steps + 1

\* C10: first_choice accepts only a neighbour scoring at least the current
\* score and appends one trace entry per accepted move; it returns a goal, or
\* a state all of whose neighbours score less, or after max_steps moves; the
\* trace has at most max_steps + 1 entries.
C10_FirstChoice == []FirstChoiceStops /\ [][FirstChoiceMoveIsNoLoss]_vars

\* first_choice has returned the state it started on after two moves of equal
\* score, away and back.
C10_Witness ==
    /\ Returned
    /\ alg = "first_choice"
    /\ arg.max_steps = 2
    /\ Len(result[2]) = 3
    /\ result[1] = arg.initial_state
    /\ result[2][1] = result[2][3]

DeadEnd == alg \in {"steepest_ascent", "first_choice", "anneal"}
               /\ get_neighbors(arg.initial_state) = <<>>

InitialAlone == <<arg.initial_state, <<evaluate(arg.initial_state)>>>>

DeadEndSafe ==
    DeadEnd =>
        /\ hc # None => hc.current = arg.initial_state /\ Len(hc.scores) = 1
        /\ sa # None =>
               /\ sa.current = arg.initial_state
               /\ sa.best_state = arg.initial_state
               /\ Len(sa.scores) = 1
        /\ pc = "steepest_return" => hc.step = 0
        /\ pc = "first_return" => hc.step = 0
        /\ (pc = "anneal_return" \/ (Returned /\ alg = "anneal")) =>
               sa.temp <= sa.min_temp
        /\ Returned => result = InitialAlone

\* C12: started on a state without neighbours, steepest_ascent and
\* first_choice stop before any move and anneal accepts nothing, cools until
\* the temperature is at most min_temp and stops; each returns the initial
\* state with a trace of one entry, and each does return.
C12_DeadEndReturnsInitial ==
    /\ []DeadEndSafe
    /\ (DeadEnd /\ pc = "start") ~> (Returned /\ result = InitialAlone)

\* anneal has returned from a state without neighbours after cooling from a
\* temperature above min_temp, with inner iterations asked for.
C12_Witness ==
    /\ Returned
    /\ alg = "anneal"
    /\ get_neighbors(arg.initial_state) = <<>>
    /\ arg.initial_temp > arg.min_temp
    /\ arg.steps_per_temp >= 1
    /\ result = InitialAlone

InnerIteration ==
    /\ pc = "anneal_for"
    /\ sa.step < sa.steps_per_temp
    /\ get_neighbors(sa.current) # <<>>

\* What one inner iteration does, for every neighbour it can choose and either
\* outcome of the draw.
IterationEffect ==
    InnerIteration =>
        \A k \in 1 .. Len(get_neighbors(sa.current)), draw \in BOOLEAN :
            LET next_state == get_neighbors(sa.current)[k]
                delta == evaluate(next_state) - sa.current_score
                f == AnnealBody(sa, k, draw)
                accepted == f.current # sa.current
            IN  /\ delta > 0 => accepted
                /\ accepted =>
                       /\ f.current = next_state
                       /\ f.current_score = evaluate(next_state)
                       /\ f.scores = Append(sa.scores, evaluate(next_state))
                /\ ~accepted =>
                       /\ f.scores = sa.scores
                       /\ f.current_score = sa.current_score
                       /\ f.best_state = sa.best_state
                       /\ f.best_score = sa.best_score

TraceEndsAtCurrent ==
    sa # None =>
        /\ Last(sa.scores) = sa.current_score
        /\ sa.current_score = evaluate(sa.current)

\* The trace starts with one entry and grows by one entry in exactly the
\* steps that replace the current state.
OneEntryPerAcceptance ==
    /\ (sa = None /\ sa' # None) => Len(sa'.scores) = 1
    /\ (sa # None /\ sa' # None) =>
           IF sa'.current # sa.current
           THEN sa'.scores = Append(sa.scores, evaluate(sa'.current))
           ELSE sa'.scores = sa.scores /\ sa'.best_state = sa.best_state

\* C13: in an inner iteration of anneal with neighbours, a neighbour that
\* scores above the current state is always accepted; an accepted neighbour
\* becomes the current state and its score is the one entry added to the
\* trace; a rejected one leaves current state, trace and best state as they
\* were.  So the trace always ends with the current state's score and has one
\* entry more than there were acceptances.
C13_AnnealIteration ==
    /\ []IterationEffect
    /\ []TraceEndsAtCurrent
    /\ [][OneEntryPerAcceptance]_vars

\* Two inner iterations at the initial temperature, one of which accepted its
\* neighbour and one of which rejected it.
C13_Witness ==
    /\ alg = "anneal"
    /\ pc = "anneal_for"
    /\ sa.temp = arg.initial_temp
    /\ sa.step = 2
    /\ Len(sa.scores) = 2

SameInstance(a, b) ==
    /\ a.kind = b.kind
    /\ IF a.kind = "QueenHillClimbing" THEN a.size = b.size ELSE a.goal = b.goal

\* C14: the state each attempt of random_restart and random_restart_anneal
\* starts from is a state of the caller's problem instance: queens of the
\* caller's board size, or a puzzle scored against the caller's goal grid.
C14_FreshStateSameInstance ==
    rr # None => SameInstance(rr.initial_state, arg.initial_state)

FinalState == result[1]

FinalTrace == result[2]

\* What the harness records: success from the state, the final score from
\* the trace.
FinalScoreAgrees ==
    /\ alg \in {"steepest_ascent", "first_choice"} =>
           /\ FinalTrace # <<>>
           /\ Last(FinalTrace) = evaluate(FinalState)
    /\ FinalTrace # <<>> =>
           /\ evaluate(FinalState) >= Last(FinalTrace)
           /\ Last(FinalTrace) = Optimum => is_goal(FinalState)
    /\ alg \in {"steepest_ascent", "first_choice", "random_restart"} =>
           (is_goal(FinalState) => Last(FinalTrace) = Optimum)
    /\ FinalTrace = <<>> =>
           alg = "random_restart_anneal" /\ arg.num_restarts = 0

\* C15 as stated: whenever an entry point returns a trace with a last entry,
\* that entry is the score of the returned state.
C15_LastEntryIsFinalScore ==
    (Returned /\ FinalTrace # <<>>) => Last(FinalTrace) = evaluate(FinalState)

\* C15: steepest_ascent and first_choice return a trace whose last entry is
\* the score of the returned state.  The other entry points return the best
\* state they tracked: its score is at least the last entry of a non-empty
\* trace, a last entry of 100 comes only with a goal state, and for
\* random_restart a goal state comes only with a last entry of 100.  The trace
\* is empty only for random_restart_anneal with num_restarts = 0.
C15_FinalScoreBoundsLastEntry == Returned => FinalScoreAgrees

\* anneal has returned a goal state with a trace that ends below 100.
C15_Witness ==
    /\ Returned
    /\ alg = "anneal"
    /\ is_goal(FinalState)
    /\ FinalTrace # <<>>
    /\ Last(FinalTrace) < Optimum

\* The board or column array of objects[j] as the values it holds, and the
\* addresses of the lists that hold them.
ArrayOf(m, j) ==
    IF m.objects[j].kind = "QueenHillClimbing"
    THEN ColsAt(m.heap, m.objects[j].queen_cols)
    ELSE BoardAt(m.heap, m.objects[j].board)

ListsOf(m, j) ==
    IF m.objects[j].kind = "QueenHillClimbing"
    THEN {m.objects[j].queen_cols}
    ELSE {m.objects[j].board}
             \cup {m.heap[m.objects[j].board][i] :
                      i \in 1 .. Len(m.heap[m.objects[j].board])}

ValueOf(m, j) ==
    LET o == m.objects[j]
    IN  IF o.kind = "QueenHillClimbing"
        THEN [kind |-> o.kind, size |-> o.size, queen_cols |-> ArrayOf(m, j)]
        ELSE [kind |-> o.kind, board |-> ArrayOf(m, j), size |-> o.size,
              blank_pos |-> o.blank_pos,
              goal |-> [kind |-> m.objects[o.goal].kind,
                        board |-> ArrayOf(m, o.goal),
                        size |-> m.objects[o.goal].size,
                        blank_pos |-> m.objects[o.goal].blank_pos]]

\* No list of one object's board or column array is a list of another's.
NoSharing ==
    mem # None =>
        \A a \in 1 .. Len(mem.objects), b \in 1 .. Len(mem.objects) :
            a # b => ListsOf(mem, a) \cap ListsOf(mem, b) = {}

\* The objects listed are the neighbours get_neighbors computes by value.
ListingIsGetNeighbors ==
    (mem # None /\ mem.writes = 0 /\ mem.listed # <<>>) =>
        [k \in 1 .. Len(mem.listed) |-> ValueOf(mem, mem.listed[k])]
            = get_neighbors(ValueOf(mem, mem.current))

\* A step leaves every object that exists where it is and, unless it is the
\* object the caller wrote to, with the board or column array it had.
FrameKept ==
    (mem # None /\ mem' # None) =>
        \A j \in 1 .. Len(mem.objects) :
            /\ mem'.objects[j] = mem.objects[j]
            /\ j # mem'.written => ArrayOf(mem', j) = ArrayOf(mem, j)
            /\ j = mem'.written => ArrayOf(mem', j) # ArrayOf(mem, j)

\* C11: get_neighbors (with move inside it), taking a neighbour as the
\* current state and generating a fresh state leave the board or column
\* array of every state object that exists unchanged, and a write into a
\* neighbour's board or column array changes that neighbour's alone: no two
\* objects share a list.
C11_StatesAreNeverChanged ==
    /\ []NoSharing
    /\ []ListingIsGetNeighbors
    /\ [][FrameKept]_vars

\* The caller has written into a neighbour of a neighbour, after two
\* listings.
C11_Witness ==
    /\ mem # None
    /\ mem.listings >= 2
    /\ mem.written # 0
    /\ mem.objects[mem.written].parent # 0
    /\ mem.objects[mem.objects[mem.written].parent].parent # 0

====
